---------------------------- MODULE Spec2Model ----------------------------
(***************************************************************************)
(* Request routers of package mux (src/mux.go, lines 201-394): Method,     *)
(* ContentType and Accept, each a map from string keys to handlers with a  *)
(* ServeHTTP method.                                                       *)
(*                                                                         *)
(* Strings are sequences of one-character strings, so that upper/lower     *)
(* casing, splitting, trimming, lexicographic sorting and joining are      *)
(* computed character by character as the Go code computes them.           *)
(***************************************************************************)
EXTENDS Integers, Sequences, FiniteSets, TLC

(***************************************************************************)
(* Bounds of the model.                                                    *)
(***************************************************************************)
\* largest number of keys in a route table
MaxRoutes == 2
\* largest number of comma-separated segments in an Accept header
MaxClauses == 2

(***************************************************************************)
(* Characters.  Ascii lists the characters the model uses in ASCII order.  *)
(***************************************************************************)
Lowers ==
  <<"a","b","c","d","e","f","g","h","i","j","k","l","m",
    "n","o","p","q","r","s","t","u","v","w","x","y","z">>

Uppers ==
  <<"A","B","C","D","E","F","G","H","I","J","K","L","M",
    "N","O","P","Q","R","S","T","U","V","W","X","Y","Z">>

Digits == <<"0","1","2","3","4","5","6","7","8","9">>

Ascii ==
  <<" ", "*", "+", ",", "-", ".", "/">> \o Digits \o <<";", "=">> \o Uppers \o Lowers

Range(s) == { s[i] : i \in DOMAIN s }

IndexIn(c, s) == CHOOSE i \in DOMAIN s : s[i] = c

\* position of every character in ASCII order (byte comparison of Go strings)
OrdOf == [c \in Range(Ascii) |-> IndexIn(c, Ascii)]

Ord(c) == OrdOf[c]

UpperOf == [c \in Range(Lowers) |-> Uppers[IndexIn(c, Lowers)]]

LowerOf == [c \in Range(Uppers) |-> Lowers[IndexIn(c, Uppers)]]

UpperChar(c) == IF c \in DOMAIN UpperOf THEN UpperOf[c] ELSE c

LowerChar(c) == IF c \in DOMAIN LowerOf THEN LowerOf[c] ELSE c

\* strings.ToUpper
ToUpper(s) == [i \in DOMAIN s |-> UpperChar(s[i])]

\* strings.ToLower
ToLower(s) == [i \in DOMAIN s |-> LowerChar(s[i])]

\* Go's s < t on strings: bytewise lexicographic order
StrLess(s, t) ==
  \E i \in 1..(Len(t)) :
     /\ \A j \in 1..(i-1) : j <= Len(s) /\ s[j] = t[j]
     /\ \/ i = Len(s) + 1
        \/ i <= Len(s) /\ Ord(s[i]) < Ord(t[i])

\* s[from..] in Go slice terms (1-based here), empty when from is past the end
Drop(s, n) == SubSeq(s, n + 1, Len(s))

Take(s, n) == SubSeq(s, 1, n)

\* strings.HasPrefix
HasPrefix(s, p) == Len(s) >= Len(p) /\ Take(s, Len(p)) = p

\* strings.HasSuffix
HasSuffix(s, p) == Len(s) >= Len(p) /\ Drop(s, Len(s) - Len(p)) = p

\* strings.Index for a one-character separator: position of the first
\* occurrence, 0 when there is none
IndexChar(s, c) ==
  LET at == { i \in DOMAIN s : s[i] = c } IN
  IF at = {} THEN 0 ELSE CHOOSE i \in at : \A j \in at : i <= j

RECURSIVE Split(_, _)
\* strings.Split(s, c) for a one-character separator
Split(s, c) ==
  LET i == IndexChar(s, c) IN
  IF i = 0 THEN <<s>> ELSE <<Take(s, i - 1)>> \o Split(Drop(s, i), c)

\* strings.SplitN(s, c, 2)
SplitN2(s, c) ==
  LET i == IndexChar(s, c) IN
  IF i = 0 THEN <<s>> ELSE <<Take(s, i - 1), Drop(s, i)>>

RECURSIVE Join(_, _)
\* strings.Join(ss, sep)
Join(ss, sep) ==
  IF Len(ss) = 0 THEN <<>>
  ELSE IF Len(ss) = 1 THEN ss[1]
  ELSE ss[1] \o sep \o Join(Tail(ss), sep)

RECURSIVE TrimLeftChars(_, _)
TrimLeftChars(s, cs) ==
  IF Len(s) > 0 /\ s[1] \in cs THEN TrimLeftChars(Tail(s), cs) ELSE s

RECURSIVE TrimRightChars(_, _)
TrimRightChars(s, cs) ==
  IF Len(s) > 0 /\ s[Len(s)] \in cs THEN TrimRightChars(Take(s, Len(s) - 1), cs) ELSE s

\* strings.Trim(s, " "); with the model's alphabet the space is also the only
\* whitespace, so this is strings.TrimSpace as well
TrimSpace(s) == TrimRightChars(TrimLeftChars(s, {" "}), {" "})

Swap(s, i, j) == [s EXCEPT ![i] = s[j], ![j] = s[i]]

\* all orders in which a range loop may enumerate the keys of a map
Orders(S) == { f \in [1..Cardinality(S) -> S] : Range(f) = S }

(***************************************************************************)
(* sort.Strings.  For slices of at most 12 elements Go's sort is a plain   *)
(* insertion sort; the tables of the model stay far below that.            *)
(***************************************************************************)
RECURSIVE SinkString(_, _)
SinkString(s, j) ==
  IF j > 1 /\ StrLess(s[j], s[j-1]) THEN SinkString(Swap(s, j, j-1), j - 1) ELSE s

RECURSIVE InsertStrings(_, _)
InsertStrings(s, i) ==
  IF i > Len(s) THEN s ELSE InsertStrings(SinkString(s, i), i + 1)

SortStrings(s) == InsertStrings(s, 2)

(***************************************************************************)
(* The response as the router leaves it.  status = 0: WriteHeader was not  *)
(* called by the router (the server then answers with the default 200).    *)
(* accept: the value the router set for the header "Accept", or NoHeader.  *)
(* called: the handlers invoked, in order; a handler is named by the key   *)
(* it is registered under.  What a handler itself writes is opaque.        *)
(* panicked: the dispatch ended in a run-time panic (index out of range).  *)
(***************************************************************************)
NoHeader == <<"<unset>">>

NewResponse == [status |-> 0, accept |-> NoHeader, called |-> <<>>, panicked |-> FALSE]

\* handler.ServeHTTP(w, r)
Invoke(w, h) == [w EXCEPT !.called = Append(@, h)]

\* w.WriteHeader(code)
WriteHeader(w, code) == [w EXCEPT !.status = code]

\* w.Header().Set("Accept", v)
SetAccept(w, v) == [w EXCEPT !.accept = v]

StatusMethodNotAllowed == 405
StatusUnsupportedMediaType == 415
StatusNotAcceptable == 406

OPTIONS == <<"O","P","T","I","O","N","S">>

(***************************************************************************)
(* Method.ServeHTTP.  table is the map (key -> handler); order is the      *)
(* order in which the range loop happens to enumerate its keys.            *)
(***************************************************************************)
\* variant: the lookup uses the method as sent, without upper-casing it
MethodServe_CaseSensitive(table, method0, order) ==
  LET method == method0 IN
  IF method \in DOMAIN table
  THEN Invoke(NewResponse, table[method])
  ELSE LET ks == SortStrings(order \o <<OPTIONS>>)
           w1 == SetAccept(NewResponse, Join(ks, <<",">>))
       IN IF method # OPTIONS THEN WriteHeader(w1, StatusMethodNotAllowed) ELSE w1

\* variant: the advertised methods are set before the lookup, on every path
MethodServe_HeaderFirst(table, method0, order) ==
  LET method == ToUpper(method0)
      ks == SortStrings(order \o <<OPTIONS>>)
      w1 == SetAccept(NewResponse, Join(ks, <<",">>))
  IN IF method \in DOMAIN table
     THEN Invoke(w1, table[method])
     ELSE IF method # OPTIONS THEN WriteHeader(w1, StatusMethodNotAllowed) ELSE w1

\* variant: no return after the handler, the no-match path runs as well
MethodServe_NoReturn(table, method0, order) ==
  LET method == ToUpper(method0)
      w0 == IF method \in DOMAIN table THEN Invoke(NewResponse, table[method])
            ELSE NewResponse
      ks == SortStrings(order \o <<OPTIONS>>)
      w1 == SetAccept(w0, Join(ks, <<",">>))
  IN IF method # OPTIONS THEN WriteHeader(w1, StatusMethodNotAllowed) ELSE w1

MethodServe(table, method0, order) ==
  LET method == ToUpper(method0) IN
  IF method \in DOMAIN table
  THEN Invoke(NewResponse, table[method])
  ELSE LET ks == SortStrings(order \o <<OPTIONS>>)
           w1 == SetAccept(NewResponse, Join(ks, <<",">>))
       IN IF method # OPTIONS THEN WriteHeader(w1, StatusMethodNotAllowed) ELSE w1


(***************************************************************************)
(* mime.ParseMediaType of the Go standard library, as called at            *)
(* src/mux.go:249 and :374.  Modelled over the model's alphabet: there is  *)
(* no double quote, so parameter values are tokens, and parameter names    *)
(* carry no "*" (no RFC 2231 continuations).                               *)
(***************************************************************************)
NonTokenChars == {" ", ",", "/", ";", "="}

RECURSIVE TokenLen(_)
\* length of the longest prefix of s made of token characters
TokenLen(s) ==
  IF Len(s) = 0 \/ s[1] \in NonTokenChars THEN 0 ELSE 1 + TokenLen(Tail(s))

\* mime.consumeToken: <<token, rest>>
consumeToken(s) == LET n == TokenLen(s) IN <<Take(s, n), Drop(s, n)>>

\* mime.checkMediaTypeDisposition: TRUE when s is "token" or "token/token"
checkMediaTypeDisposition(s) ==
  LET t1 == consumeToken(s) IN
  IF t1[1] = <<>> THEN FALSE
  ELSE IF t1[2] = <<>> THEN TRUE
  ELSE IF ~HasPrefix(t1[2], <<"/">>) THEN FALSE
  ELSE LET t2 == consumeToken(Tail(t1[2])) IN
       IF t2[1] = <<>> THEN FALSE ELSE t2[2] = <<>>

\* mime.consumeMediaParam: <<param, value, rest>>, param empty on failure
consumeMediaParam(v) ==
  LET fail == << <<>>, <<>>, v >>
      r1 == TrimLeftChars(v, {" "})
  IN IF ~HasPrefix(r1, <<";">>) THEN fail
     ELSE LET r2 == TrimLeftChars(Tail(r1), {" "})
              p  == consumeToken(r2)
              r3 == TrimLeftChars(p[2], {" "})
          IN IF p[1] = <<>> THEN fail
             ELSE IF ~HasPrefix(r3, <<"=">>) THEN fail
             ELSE LET r4  == TrimLeftChars(Tail(r3), {" "})
                      val == consumeToken(r4)
                  IN IF val[1] = <<>> THEN fail
                     ELSE << ToLower(p[1]), val[1], val[2] >>

RECURSIVE ParseParams(_, _)
\* the parameter loop of mime.ParseMediaType: [err, params]
ParseParams(v0, params) ==
  LET v == TrimLeftChars(v0, {" "}) IN
  IF Len(v) = 0 THEN [err |-> FALSE, params |-> params]
  ELSE LET kv == consumeMediaParam(v) IN
       IF kv[1] = <<>>
       THEN \* a trailing semicolon is ignored, anything else is an error
            [err |-> TrimSpace(kv[3]) # <<";">>, params |-> params]
       ELSE IF kv[1] \in DOMAIN params /\ params[kv[1]] # kv[2]
       THEN [err |-> TRUE, params |-> params]
       ELSE ParseParams(kv[3], (kv[1] :> kv[2]) @@ params)

NoParams == [k \in {} |-> <<>>]

\* mime.ParseMediaType(v): [err, mediatype, params]
ParseMediaType(v) ==
  LET i    == IndexChar(v, ";")
      base == IF i = 0 THEN v ELSE Take(v, i - 1)
      mt   == TrimSpace(ToLower(base))
  IN IF ~checkMediaTypeDisposition(mt)
     THEN [err |-> TRUE, mediatype |-> <<>>, params |-> NoParams]
     ELSE LET ps == ParseParams(Drop(v, Len(base)), NoParams) IN
          [err |-> ps.err, mediatype |-> mt, params |-> ps.params]

(***************************************************************************)
(* strconv.ParseFloat(s, 32) for the decimal forms [sign] digits [ "."     *)
(* digits ].  The value is kept exactly, in thousandths (the model's       *)
(* headers carry at most three fractional digits, which float32 keeps      *)
(* apart); exponents, hexadecimal floats, "inf" and "nan" are not among    *)
(* the model's inputs.                                                     *)
(***************************************************************************)
DigitValOf == [c \in Range(Digits) |-> IndexIn(c, Digits) - 1]

DigitVal(c) == DigitValOf[c]

IsDigits(s) == \A i \in DOMAIN s : s[i] \in DOMAIN DigitValOf

RECURSIVE DigitsValue(_)
DigitsValue(s) ==
  IF Len(s) = 0 THEN 0 ELSE 10 * DigitsValue(Take(s, Len(s) - 1)) + DigitVal(s[Len(s)])

\* the first three fractional digits, as thousandths
FractionValue(s) == DigitsValue(Take(s \o <<"0","0","0">>, 3))

ParseFloat(s0) ==
  LET neg  == HasPrefix(s0, <<"-">>)
      s    == IF HasPrefix(s0, <<"-">>) \/ HasPrefix(s0, <<"+">>) THEN Tail(s0) ELSE s0
      i    == IndexChar(s, ".")
      ip   == IF i = 0 THEN s ELSE Take(s, i - 1)
      fp   == IF i = 0 THEN <<>> ELSE Drop(s, i)
      ok   == IsDigits(ip) /\ IsDigits(fp) /\ Len(ip) + Len(fp) > 0
      mag  == 1000 * DigitsValue(ip) + FractionValue(fp)
  IN IF ok THEN [err |-> FALSE, val |-> IF neg THEN 0 - mag ELSE mag]
     ELSE [err |-> TRUE, val |-> 0]

(***************************************************************************)
(* ContentType.ServeHTTP                                                   *)
(***************************************************************************)
STAR == <<"*">>
SLASHSTAR == <<"/", "*">>
STARSTAR == <<"*", "/", "*">>

\* the map possibleTypes built by the range loop: prefix of every key that
\* ends in "/*" -> its handler (distinct keys have distinct prefixes, so the
\* enumeration order of the loop does not matter)
possibleTypes(table) ==
  LET ks == { k \in DOMAIN table : HasSuffix(k, SLASHSTAR) } IN
  [p \in { Take(k, Len(k) - 2) : k \in ks } |-> table[p \o SLASHSTAR]]

\* variant: the "*/*" handler is tried before the subtype wildcards
ContentTypeServe_FallbackFirst(table, contentType) ==
  LET pm        == ParseMediaType(contentType)
      mediaType == IF pm.err THEN contentType ELSE pm.mediatype
      possible  == possibleTypes(table)
      typ       == SplitN2(mediaType, "/")[1]
  IN IF mediaType \in DOMAIN table THEN Invoke(NewResponse, table[mediaType])
     ELSE IF STARSTAR \in DOMAIN table THEN Invoke(NewResponse, table[STARSTAR])
     ELSE IF typ \in DOMAIN possible THEN Invoke(NewResponse, possible[typ])
     ELSE WriteHeader(NewResponse, StatusUnsupportedMediaType)

\* variant: the header is used as the key as it was sent, parameters included
ContentTypeServe_RawKey(table, contentType) ==
  LET mediaType == contentType
      possible  == possibleTypes(table)
      typ       == SplitN2(mediaType, "/")[1]
  IN IF mediaType \in DOMAIN table THEN Invoke(NewResponse, table[mediaType])
     ELSE IF typ \in DOMAIN possible THEN Invoke(NewResponse, possible[typ])
     ELSE IF STARSTAR \in DOMAIN table THEN Invoke(NewResponse, table[STARSTAR])
     ELSE WriteHeader(NewResponse, StatusUnsupportedMediaType)

\* variant: the parse error is ignored and the (empty) parsed type is used
ContentTypeServe_ErrorIgnored(table, contentType) ==
  LET pm        == ParseMediaType(contentType)
      mediaType == IF pm.err THEN <<>> ELSE pm.mediatype
      possible  == possibleTypes(table)
      typ       == SplitN2(mediaType, "/")[1]
  IN IF mediaType \in DOMAIN table THEN Invoke(NewResponse, table[mediaType])
     ELSE IF typ \in DOMAIN possible THEN Invoke(NewResponse, possible[typ])
     ELSE IF STARSTAR \in DOMAIN table THEN Invoke(NewResponse, table[STARSTAR])
     ELSE WriteHeader(NewResponse, StatusUnsupportedMediaType)

\* variant: the type is taken by indexing both parts of the split, which is
\* out of range for a media type without a slash
ContentTypeServe_IndexSubtype(table, contentType) ==
  LET pm        == ParseMediaType(contentType)
      mediaType == IF pm.err THEN contentType ELSE pm.mediatype
      possible  == possibleTypes(table)
      parts     == SplitN2(mediaType, "/")
  IN IF mediaType \in DOMAIN table THEN Invoke(NewResponse, table[mediaType])
     ELSE IF Len(parts) < 2 THEN [NewResponse EXCEPT !.panicked = TRUE]
     ELSE IF parts[1] \in DOMAIN possible THEN Invoke(NewResponse, possible[parts[1]])
     ELSE IF STARSTAR \in DOMAIN table THEN Invoke(NewResponse, table[STARSTAR])
     ELSE WriteHeader(NewResponse, StatusUnsupportedMediaType)

ContentTypeServe(table, contentType) ==
  LET pm        == ParseMediaType(contentType)
      mediaType == IF pm.err THEN contentType ELSE pm.mediatype
      possible  == possibleTypes(table)
      typ       == SplitN2(mediaType, "/")[1]
  IN IF mediaType \in DOMAIN table THEN Invoke(NewResponse, table[mediaType])
     ELSE IF typ \in DOMAIN possible THEN Invoke(NewResponse, possible[typ])
     ELSE IF STARSTAR \in DOMAIN table THEN Invoke(NewResponse, table[STARSTAR])
     ELSE WriteHeader(NewResponse, StatusUnsupportedMediaType)

(***************************************************************************)
(* Accept: clauses, their parsing and their ordering                       *)
(***************************************************************************)
Clause(t, s, q) == [Type |-> t, Subtype |-> s, Quality |-> q]

\* parseContentType: [ok, ct]
parseContentType(s) ==
  LET pm    == ParseMediaType(s)
      fail  == [ok |-> FALSE, ct |-> Clause(<<>>, <<>>, 0)]
      hasq  == <<"q">> \in DOMAIN pm.params
      pf    == IF hasq THEN ParseFloat(pm.params[<<"q">>]) ELSE [err |-> FALSE, val |-> 1000]
      parts == Split(pm.mediatype, "/")
  IN IF pm.err THEN fail
     ELSE IF pf.err THEN fail
     ELSE IF Len(parts) # 2 THEN fail
     ELSE [ok |-> TRUE, ct |-> Clause(parts[1], parts[2], pf.val)]

\* variant: one malformed part makes the whole list empty
parseParts_FailWhole(parts) ==
  IF \E i \in DOMAIN parts : ~parseContentType(parts[i]).ok THEN <<>>
  ELSE [i \in DOMAIN parts |-> parseContentType(parts[i]).ct]

RECURSIVE parseParts(_)
\* the loop of parseContentTypeList over the comma-separated parts
parseParts(parts) ==
  IF Len(parts) = 0 THEN <<>>
  ELSE LET p == parseContentType(parts[1]) IN
       (IF p.ok THEN <<p.ct>> ELSE <<>>) \o parseParts(Tail(parts))

parseContentTypeList(s0) ==
  LET s == TrimSpace(s0) IN
  IF Len(s) = 0 THEN <<>> ELSE parseParts(Split(s, ","))

\* variant: clauses are compared by quality alone
Less_QualityOnly(ci, cj) == ci.Quality > cj.Quality

\* byQuality.Less on two clauses
Less(ci, cj) ==
  \/ ci.Quality > cj.Quality
  \/ ci.Type # STAR /\ cj.Type = STAR
  \/ ci.Subtype # STAR /\ cj.Subtype = STAR

RECURSIVE SinkClause(_, _)
SinkClause(cs, j) ==
  IF j > 1 /\ Less(cs[j], cs[j-1]) THEN SinkClause(Swap(cs, j, j-1), j - 1) ELSE cs

RECURSIVE InsertClauses(_, _)
InsertClauses(cs, i) ==
  IF i > Len(cs) THEN cs ELSE InsertClauses(SinkClause(cs, i), i + 1)

\* sort.Sort(byQuality(cs)): insertion sort for the short lists of the model
SortByQuality(cs) == InsertClauses(cs, 2)

(***************************************************************************)
(* Accept.ServeHTTP                                                        *)
(***************************************************************************)
\* the condition of the inner loop for clause ct and route key rout
\* variant: a "type/*" route key is a pattern too, as it is for ContentType
Matches_RouteWildcard(ct, rout) ==
  LET rsplit == Split(rout, "/") IN
  \/ ct.Type = rsplit[1] /\ ct.Subtype = rsplit[2]
  \/ ct.Type = rsplit[1] /\ ct.Subtype = STAR
  \/ ct.Type = rsplit[1] /\ rsplit[2] = STAR
  \/ ct.Type = STAR /\ ct.Subtype = STAR

Matches(ct, rout) ==
  LET rsplit == Split(rout, "/") IN
  \/ ct.Type = rsplit[1] /\ ct.Subtype = rsplit[2]
  \/ ct.Type = rsplit[1] /\ ct.Subtype = STAR
  \/ ct.Type = STAR /\ ct.Subtype = STAR

\* evaluating the condition indexes rsplit[1] (Go, 0-based) as soon as the
\* types are equal: out of range for a key without a slash
Panics(ct, rout) ==
  LET rsplit == Split(rout, "/") IN ct.Type = rsplit[1] /\ Len(rsplit) < 2

Panic == [NewResponse EXCEPT !.panicked = TRUE]

\* variant: without the "*/*" fallback after the loops
ScanClauses_NoFallback(table, cts) ==
  LET first == { i \in DOMAIN cts : \E k \in DOMAIN table : Matches(cts[i], k) } IN
  IF first = {} THEN { WriteHeader(NewResponse, StatusNotAcceptable) }
  ELSE LET i == CHOOSE n \in first : \A m \in first : n <= m IN
       { Invoke(NewResponse, table[k]) : k \in { x \in DOMAIN table : Matches(cts[i], x) } }

RECURSIVE ScanClauses(_, _)
\* The two nested loops.  The inner loop ranges over a Go map, whose
\* enumeration order is unspecified and differs from loop to loop: the key
\* it stops at can be any key at which the condition holds or panics.  The
\* result is the set of responses the dispatch can end with.
ScanClauses(table, cts) ==
  IF Len(cts) = 0
  THEN { IF STARSTAR \in DOMAIN table THEN Invoke(NewResponse, table[STARSTAR])
         ELSE WriteHeader(NewResponse, StatusNotAcceptable) }
  ELSE LET ct   == cts[1]
           bad  == { k \in DOMAIN table : Panics(ct, k) }
           hits == { k \in DOMAIN table : ~Panics(ct, k) /\ Matches(ct, k) }
       IN IF bad = {} /\ hits = {} THEN ScanClauses(table, Tail(cts))
          ELSE { Invoke(NewResponse, table[k]) : k \in hits }
               \cup (IF bad = {} THEN {} ELSE {Panic})

AcceptServe(table, accept) ==
  ScanClauses(table, SortByQuality(parseContentTypeList(accept)))

(***************************************************************************)
(* Inputs: route tables and requests, drawn from small sets of strings.    *)
(***************************************************************************)
GET == <<"G","E","T">>
PUT == <<"P","U","T">>
POST == <<"P","O","S","T">>
put == <<"p","u","t">>

\* keys a Method table may hold ("put" is a key no request can reach)
MethodKeys == {GET, PUT, OPTIONS, put}

\* request methods, in several letter cases, and the empty method
Methods ==
  {GET, PUT, POST, OPTIONS, put, <<"P","u","t">>, <<"g","e","t">>,
   <<"o","p","t","i","o","n","s">>, <<"O","p","t","i","o","n","s">>, <<>>}

AX == <<"a","/","x">>
AJ == <<"a","/","j">>
IP == <<"i","/","p">>
ASTAR == <<"a","/","*">>
STARX == <<"*","/","x">>
ASLASH == <<"a","/">>

\* keys a ContentType table may hold: exact types, wildcards, and a key that
\* is not a media type
ContentTypeKeys == {AX, IP, ASTAR, STARSTAR, ASLASH}

\* well-formed media types a request may carry, before any parameter
MediaBases == {AX, AJ, IP, <<"A","/","X">>, <<" ","i","/","p">>, <<"m","/","j">>}

\* well-formed parameter lists
GoodParams ==
  {<<>>, <<";"," ","b","=","1">>, <<";","q","=","0",".","5">>,
   <<";","b","=","1",";","c","=","x">>, <<" ",";">>}

\* Content-Type values mime.ParseMediaType rejects
MalformedTypes ==
  {<<>>, ASLASH, <<"a","/","x",";","b">>, <<"i","/","p",";","=","1">>,
   <<"a","/","x","/","y">>, <<"/","x">>, <<"a"," ","x">>,
   <<"a","/","x",";","b","=","1",";","b","=","2">>, <<"m","/",";","b","=","1">>}

\* Content-Type values of one token, which mime.ParseMediaType accepts
BareTokens == {<<"w">>, <<"a">>}

ContentTypes ==
  {b \o p : b \in MediaBases, p \in GoodParams} \cup MalformedTypes \cup BareTokens

\* keys an Accept table may hold
AcceptKeys == {AX, AJ, IP, ASTAR, STARSTAR}

\* media ranges of Accept segments, without parameters (quality 1.0)
MediaRanges == {AX, AJ, ASTAR, STARSTAR, STARX}

Q05 == <<";","q","=","0",".","5">>
Q08 == <<";","q","=","0",".","8">>

\* media ranges with a quality parameter: a tie at 0.5, a tie at 0.8 (one of
\* them after a space, as in "a/x, a/j"), wildcards above and below
\* specific types
WeightedSegments ==
  {AX \o Q05, IP \o Q05, <<" ">> \o AJ \o Q08, ASTAR \o Q08}

\* segments that yield no clause: no slash, and a quality that is no number
OtherSegments == {<<"w">>, <<"a","/","x",";","q","=","x">>}

Segments == MediaRanges \cup WeightedSegments \cup OtherSegments

\* Accept headers: at most MaxClauses segments joined by commas; the empty
\* string is the absent header
AcceptHeaders ==
  UNION { { Join(f, <<",">>) : f \in [1..n -> Segments] } : n \in 0..MaxClauses }

Tables(keys) ==
  { [k \in ks |-> k] : ks \in { S \in SUBSET keys : Cardinality(S) <= MaxRoutes } }

(***************************************************************************)
(* State                                                                   *)
(***************************************************************************)
VARIABLES
  route,   \* the router: its type (kind) and its map (table)
  r,       \* the request of the last dispatch
  w,       \* the response of the last dispatch
  served,  \* whether the request has been dispatched and awaits its answer
  prev     \* the response of the previous dispatch of the same request, as a
           \* sequence of length one; empty when r was dispatched only once

vars == <<route, r, w, served, prev>>

Request(m, ct, acc) == [Method |-> m, ContentType |-> ct, Accept |-> acc]

Init ==
  /\ route \in [kind : {"Method"}, table : Tables(MethodKeys)]
          \cup [kind : {"ContentType"}, table : Tables(ContentTypeKeys)]
          \cup [kind : {"Accept"}, table : Tables(AcceptKeys)]
  /\ r = Request(<<>>, <<>>, <<>>)
  /\ w = NewResponse
  /\ served = FALSE
  /\ prev = <<>>

\* The three dispatch actions.  A request reaches the router (~served), or
\* the request the router has just served reaches it once more (served):
\* the router is a map nobody changes, so the second dispatch runs the same
\* code on the same data, and prev keeps the response of the dispatch before.
Method_ServeHTTP ==
  /\ route.kind = "Method"
  /\ \E m \in (IF served THEN {r.Method} ELSE Methods),
        order \in Orders(DOMAIN route.table) :
       /\ r' = Request(m, <<>>, <<>>)
       /\ w' = MethodServe(route.table, m, order)
  /\ prev' = IF served THEN <<w>> ELSE <<>>
  /\ served' = TRUE
  /\ UNCHANGED route

ContentType_ServeHTTP ==
  /\ route.kind = "ContentType"
  /\ \E ct \in (IF served THEN {r.ContentType} ELSE ContentTypes) :
       /\ r' = Request(GET, ct, <<>>)
       /\ w' = ContentTypeServe(route.table, ct)
  /\ prev' = IF served THEN <<w>> ELSE <<>>
  /\ served' = TRUE
  /\ UNCHANGED route

Accept_ServeHTTP ==
  /\ route.kind = "Accept"
  /\ \E acc \in (IF served THEN {r.Accept} ELSE AcceptHeaders) :
       /\ r' = Request(GET, <<>>, acc)
       /\ w' \in AcceptServe(route.table, acc)
  /\ prev' = IF served THEN <<w>> ELSE <<>>
  /\ served' = TRUE
  /\ UNCHANGED route

\* the server sends the response; the next request starts from a fresh
\* response, nothing of a dispatch outlives it
Respond ==
  /\ served
  /\ r' = Request(<<>>, <<>>, <<>>)
  /\ w' = NewResponse
  /\ served' = FALSE
  /\ prev' = <<>>
  /\ UNCHANGED route

Next ==
  \/ Method_ServeHTTP
  \/ ContentType_ServeHTTP
  \/ Accept_ServeHTTP
  \/ Respond

Spec == Init /\ [][Next]_vars

TypeOK ==
  /\ route.kind \in {"Method", "ContentType", "Accept"}
  /\ served \in BOOLEAN
  /\ w.status \in {0, 405, 406, 415}
  /\ Len(w.called) <= 1
  /\ Len(prev) <= 1

(***************************************************************************)
(* Properties of Method                                                    *)
(***************************************************************************)
MethodServed == served /\ route.kind = "Method"

UpperKeys == \A k \in DOMAIN route.table : ToUpper(k) = k

\* the elements of a set of strings in ascending lexicographic order
Ascending(S) ==
  CHOOSE f \in Orders(S) : \A i, j \in DOMAIN f : i < j => StrLess(f[i], f[j])

\* C1: for a table with upper-case keys and a request method in any letter
\* case, the handler registered under the upper-cased method is the one
\* invoked; when there is none the status is 405, except for OPTIONS, where
\* no status is written.
C1_MethodDispatch ==
  (MethodServed /\ UpperKeys) =>
    LET m == ToUpper(r.Method) IN
    IF m \in DOMAIN route.table
    THEN w.called = <<route.table[m]>>
    ELSE /\ w.called = <<>>
         /\ w.status = IF m = OPTIONS THEN 0 ELSE 405

\* "put" reaches the handler registered under "PUT"
C1_Witness ==
  /\ MethodServed
  /\ DOMAIN route.table = {GET, PUT}
  /\ r.Method = put
  /\ w.called = <<PUT>>

\* C2: on every miss the header "Accept" is the set union of the registered
\* keys and "OPTIONS", sorted and joined with ","; for OPTIONS the status
\* stays the default.
C2_AdvertisedMethods ==
  (MethodServed /\ ToUpper(r.Method) \notin DOMAIN route.table) =>
    /\ w.accept = Join(Ascending(DOMAIN route.table \cup {OPTIONS}), <<",">>)
    /\ ToUpper(r.Method) = OPTIONS => w.status = 0

\* C3: on an exact method match, and so for OPTIONS with an explicit OPTIONS
\* handler, the router invokes that handler and itself sets no header and
\* writes no status.
C3_MatchLeavesResponseUntouched ==
  (MethodServed /\ ToUpper(r.Method) \in DOMAIN route.table) =>
    /\ w.called = <<route.table[ToUpper(r.Method)]>>
    /\ w.accept = NoHeader
    /\ w.status = 0

\* an OPTIONS request served by the explicit OPTIONS handler
C3_Witness ==
  /\ MethodServed
  /\ DOMAIN route.table = {GET, OPTIONS}
  /\ ToUpper(r.Method) = OPTIONS
  /\ w.called = <<OPTIONS>>
  /\ w.accept = NoHeader

(***************************************************************************)
(* Properties of ContentType                                               *)
(***************************************************************************)
ContentTypeServed == served /\ route.kind = "ContentType"

\* the response when exactly the handler under key k ran and the router
\* wrote nothing
Delegated(k) == Invoke(NewResponse, route.table[k])

\* the part of a string before its first "/", the whole string without one
BeforeSlash(s) == IF IndexChar(s, "/") = 0 THEN s ELSE Take(s, IndexChar(s, "/") - 1)

\* the resolution order for lookup key mt: exact key, then "type/*", then
\* "*/*", then 415 with no handler invoked
Resolved(mt) ==
  IF mt \in DOMAIN route.table THEN w = Delegated(mt)
  ELSE IF BeforeSlash(mt) \o SLASHSTAR \in DOMAIN route.table
       THEN w = Delegated(BeforeSlash(mt) \o SLASHSTAR)
  ELSE IF STARSTAR \in DOMAIN route.table THEN w = Delegated(STARSTAR)
  ELSE w.called = <<>> /\ w.status = 415

\* C4: for a request media type type/subtype the handler invoked is the one
\* under the exact key if registered, else the one under "type/*", else the
\* one under "*/*", else none and the status is 415.
C4_ContentTypePriority ==
  LET pm == ParseMediaType(r.ContentType) IN
  (ContentTypeServed /\ ~pm.err /\ IndexChar(pm.mediatype, "/") # 0) =>
    Resolved(pm.mediatype)

\* "a/j" with "a/*" and "*/*" registered goes to "a/*"
C4_Witness ==
  /\ ContentTypeServed
  /\ DOMAIN route.table = {ASTAR, STARSTAR}
  /\ r.ContentType = AJ
  /\ w.called = <<ASTAR>>

\* C5: a well-formed "type/subtype; k=v..." is dispatched exactly as the bare
\* "type/subtype" is.
C5_ParametersIgnored ==
  \A b \in MediaBases, p \in GoodParams :
    (ContentTypeServed /\ r.ContentType = b \o p) =>
      w = ContentTypeServe(route.table, b)

\* "a/x; b=1" reaches the route registered under "a/x"
C5_Witness ==
  /\ ContentTypeServed
  /\ r.ContentType = AX \o <<";"," ","b","=","1">>
  /\ AX \in DOMAIN route.table
  /\ w.called = <<AX>>

\* C6: with an unparseable Content-Type a handler is invoked only if a route
\* is registered under exactly the raw header string, and otherwise the
\* outcome is the no-match outcome (415, no handler).
C6_MalformedExactOnly ==
  (ContentTypeServed /\ ParseMediaType(r.ContentType).err) =>
    /\ ~w.panicked
    /\ IF r.ContentType \in DOMAIN route.table THEN w = Delegated(r.ContentType)
       ELSE w.called = <<>> /\ w.status = 415

\* C6 as amended: with an unparseable Content-Type the raw header string is
\* the lookup key of the ordinary resolution order: the route under exactly
\* the raw string, else the route "t/*" for t the part of the raw string
\* before its first "/", else the "*/*" route, else 415; the dispatch never
\* fails in another way.
C6_MalformedUsesRawKey ==
  (ContentTypeServed /\ ParseMediaType(r.ContentType).err) =>
    /\ ~w.panicked
    /\ Resolved(r.ContentType)

\* the malformed "a/x;b" falls to the wildcard route "a/*"
C6_Witness ==
  /\ ContentTypeServed
  /\ r.ContentType = <<"a","/","x",";","b">>
  /\ ParseMediaType(r.ContentType).err
  /\ DOMAIN route.table = {ASTAR, ASLASH}
  /\ w.called = <<ASTAR>>

(***************************************************************************)
(* Properties of Accept                                                    *)
(***************************************************************************)
AcceptServed == served /\ route.kind = "Accept"

\* the clauses of the request, in header order and as ordered by the router
HeaderClauses == parseContentTypeList(r.Accept)

OrderedClauses == SortByQuality(HeaderClauses)

\* clause c has a registered route it matches
Routable(c) == \E k \in DOMAIN route.table : Matches(c, k)

Concrete(c) == c.Type # STAR /\ c.Subtype # STAR

\* the route key a concrete clause names
KeyOf(c) == c.Type \o <<"/">> \o c.Subtype

\* the type of a route key
TypeOf(k) == BeforeSlash(k)

\* C7: the handler invoked matches a clause of the highest quality among the
\* clauses that match some registered route, wherever it is in the header.
C7_HighestQualityWins ==
  LET cs   == HeaderClauses
      cand == { i \in DOMAIN cs : Routable(cs[i]) }
  IN (AcceptServed /\ cand # {}) =>
       \E i \in cand :
         /\ \A j \in cand : cs[j].Quality <= cs[i].Quality
         /\ \E k \in DOMAIN route.table : Matches(cs[i], k) /\ w = Delegated(k)

\* C8: when one clause is "type/*" and every other clause is a specific
\* clause of strictly lower quality, and a route of that type is registered,
\* a route of that type is invoked, wherever the wildcard clause stands.
C8_WildcardSubtypeOutranks ==
  LET cs == HeaderClauses IN
  \A i \in DOMAIN cs :
    ( /\ AcceptServed
      /\ cs[i].Type # STAR /\ cs[i].Subtype = STAR
      /\ \A j \in DOMAIN cs \ {i} : Concrete(cs[j]) /\ cs[j].Quality < cs[i].Quality
      /\ \E k \in DOMAIN route.table : TypeOf(k) = cs[i].Type )
    => \E k \in DOMAIN route.table : TypeOf(k) = cs[i].Type /\ w = Delegated(k)

\* among clauses of equal quality, the clause at position i must come before
\* the one at position j
MoreSpecific(ci, cj) ==
  /\ ci.Quality = cj.Quality
  /\ \/ ci.Type # STAR /\ cj.Type = STAR
     \/ ci.Subtype # STAR /\ cj.Subtype = STAR

\* a registered route named by a concrete clause of cs is preferred to a
\* route that only wildcard clauses of the same quality reach
ExactPreferred(cs) ==
  \A i \in DOMAIN cs :
    (Concrete(cs[i]) /\ KeyOf(cs[i]) \in DOMAIN route.table) =>
      \A h \in DOMAIN route.table :
        LET via == { j \in DOMAIN cs : Matches(cs[j], h) } IN
        ( /\ via # {}
          /\ \A j \in via : ~Concrete(cs[j]) /\ cs[j].Quality = cs[i].Quality )
        => w # Delegated(h)

\* C9: after ordering, of any two clauses of equal quality the one with a
\* concrete type precedes the one with wildcard type, and the one with a
\* concrete subtype precedes the one with wildcard subtype; so a route named
\* exactly by a concrete clause is chosen over routes reachable only through
\* an equal-quality wildcard clause.
C9_SpecificityOrder ==
  AcceptServed =>
    LET cs == HeaderClauses
        os == SortByQuality(cs)
    IN /\ \A i, j \in DOMAIN os : MoreSpecific(os[i], os[j]) => i < j
       /\ ExactPreferred(cs)

\* the form "*/subtype": wildcard type with a concrete subtype
StarTyped(c) == c.Type = STAR /\ c.Subtype # STAR

\* C9 as amended: the ordering holds for any two clauses of equal quality
\* neither of which has the form "*/subtype"; the preference of exact routes
\* holds as stated.
C9_SpecificityOrderOfMediaRanges ==
  AcceptServed =>
    LET cs == HeaderClauses
        os == SortByQuality(cs)
    IN /\ \A i, j \in DOMAIN os :
            (~StarTyped(os[i]) /\ ~StarTyped(os[j]) /\ MoreSpecific(os[i], os[j]))
              => i < j
       /\ ExactPreferred(cs)

\* "a/*,a/j" with both "a/x" and "a/j" registered: the exact clause, second
\* in the header, is ordered first and its route is chosen
C9_Witness ==
  /\ AcceptServed
  /\ r.Accept = ASTAR \o <<",">> \o AJ
  /\ OrderedClauses[1] = Clause(<<"a">>, <<"j">>, 1000)
  /\ DOMAIN route.table = {AX, AJ}
  /\ w.called = <<AJ>>

\* C10: when no clause of the (possibly empty) list matches a registered
\* route, the "*/*" handler is invoked if registered; otherwise no handler
\* is invoked and the status is 406.
C10_AcceptFallback ==
  LET cs == HeaderClauses IN
  (AcceptServed /\ \A i \in DOMAIN cs : ~Routable(cs[i])) =>
    IF STARSTAR \in DOMAIN route.table THEN w = Delegated(STARSTAR)
    ELSE w.called = <<>> /\ w.status = 406

\* an absent Accept header falls through to the "*/*" route
C10_Witness ==
  /\ AcceptServed
  /\ r.Accept = <<>>
  /\ DOMAIN route.table = {AX, STARSTAR}
  /\ w.called = <<STARSTAR>>

\* the segments of the model's headers that are malformed: one without a
\* slash, one whose quality is not a number
IsMalformed(seg) == seg \in OtherSegments

RECURSIVE WellFormedOnly(_)
WellFormedOnly(segs) ==
  IF Len(segs) = 0 THEN <<>>
  ELSE (IF IsMalformed(segs[1]) THEN <<>> ELSE <<segs[1]>>) \o WellFormedOnly(Tail(segs))

\* the header h with its malformed segments removed
Cleaned(h) == Join(WellFormedOnly(Split(h, ",")), <<",">>)

\* C11: malformed segments are dropped and never fail the whole header: the
\* responses a header can end with are those of the same header with its
\* malformed segments removed; a header of malformed segments only behaves
\* as an empty clause list ("*/*" route if registered, else 406).
C11_MalformedSegmentsDropped ==
  AcceptServed =>
    LET clean == Cleaned(r.Accept)
        outs  == AcceptServe(route.table, clean)
    IN /\ w \in outs
       /\ AcceptServe(route.table, r.Accept) = outs
       /\ clean = <<>> =>
            IF STARSTAR \in DOMAIN route.table THEN w = Delegated(STARSTAR)
            ELSE w.called = <<>> /\ w.status = 406

\* "w,a/j": the malformed first segment is skipped and "a/j" is served
C11_Witness ==
  /\ AcceptServed
  /\ r.Accept = <<"w">> \o <<",">> \o AJ
  /\ Cleaned(r.Accept) = AJ
  /\ AJ \in DOMAIN route.table
  /\ w.called = <<AJ>>

(***************************************************************************)
(* Properties of all three routers                                         *)
(***************************************************************************)
\* the request was dispatched a second time against the same table
ServedTwice == served /\ prev # <<>>

\* C12: dispatching the same request twice against the same unmodified
\* table yields the same status and the same handler both times, for each
\* of the three routers.
C12_SameRequestSameOutcome ==
  ServedTwice =>
    /\ w.status = prev[1].status
    /\ w.called = prev[1].called

\* the status a router writes when nothing matches
NoMatchStatus ==
  CASE route.kind = "Method" -> 405
    [] route.kind = "ContentType" -> 415
    [] route.kind = "Accept" -> 406

\* C13: for every method, Content-Type and Accept string, empty, slash-less
\* and malformed ones included, the dispatch completes without a crash, and
\* when no handler runs the outcome is the router's own no-match answer
\* (405, 415 or 406; for Method and OPTIONS the default status).
C13_Total ==
  served =>
    /\ ~w.panicked
    /\ w.status \in {0, NoMatchStatus}
    /\ w.called = <<>> =>
         \/ w.status = NoMatchStatus
         \/ route.kind = "Method" /\ ToUpper(r.Method) = OPTIONS /\ w.status = 0

\* a Content-Type without a slash ends in 415, not in a crash
C13_Witness ==
  /\ ContentTypeServed
  /\ r.ContentType = <<"w">>
  /\ DOMAIN route.table = {AX, ASTAR}
  /\ w.status = 415
  /\ ~w.panicked

\* C14: a dispatch invokes at most one handler, and writes a status only
\* when it invoked none: the status is then the router's own 405, 415 or 406.
C14_SingleOutcome ==
  served =>
    /\ Len(w.called) <= 1
    /\ w.status # 0 => w.called = <<>> /\ w.status = NoMatchStatus
    /\ w.called # <<>> => w.called[1] \in { route.table[k] : k \in DOMAIN route.table }

\* a header that two routes could serve ends with exactly one handler
C14_Witness ==
  /\ AcceptServed
  /\ r.Accept = STARSTAR
  /\ DOMAIN route.table = {AX, AJ}
  /\ Len(w.called) = 1
  /\ w.status = 0

(***************************************************************************)
(* Accept: route keys are compared, not matched                            *)
(***************************************************************************)
\* C15: when every clause of the Accept header is a concrete type/subtype,
\* the handler chosen in the loop is registered under a key equal to a
\* clause; with no such key the outcome is the "*/*" route, or 406.  A
\* "type/*" key is never chosen for a concrete clause.
C15_RouteWildcardsAreLiteral ==
  AcceptServed =>
    LET cs    == HeaderClauses
        exact == { KeyOf(cs[i]) : i \in DOMAIN cs } \cap DOMAIN route.table
    IN (\A i \in DOMAIN cs : Concrete(cs[i])) =>
         IF exact # {} THEN \E k \in exact : w = Delegated(k)
         ELSE IF STARSTAR \in DOMAIN route.table THEN w = Delegated(STARSTAR)
         ELSE w.called = <<>> /\ w.status = 406

\* "a/x" asked for, routes under "a/*" and "*/*": the fallback serves it
C15_Witness ==
  /\ AcceptServed
  /\ r.Accept = AX
  /\ DOMAIN route.table = {ASTAR, STARSTAR}
  /\ w.called = <<route.table[STARSTAR]>>

=============================================================================
